---------------------------- MODULE Spec2Model ----------------------------
(***************************************************************************)
(* A model of the squat simulator (KanHarI/SquatsSimulator):               *)
(*   - squatSimulatorCalculations.js: calculateInitialValues,              *)
(*     calculateFemurLengthUpdate, calculateSmoothProgress,                *)
(*     calculateAnimationFrame, calculateAnglesAndJoints, toSVGCoords;     *)
(*   - SquatSimulator.js: the parameters state, the three femurDrag refs,  *)
(*     updateParameter and the femur slider's onPointerDown/onPointerUp.   *)
(*                                                                         *)
(* NUMBERS.  The program computes in IEEE-754 binary64.  The model keeps   *)
(* the IEEE structure (a signed mantissa and a binary exponent, round to   *)
(* nearest with ties to even after every operation, NaN and the two        *)
(* infinities with their arithmetic) at a mantissa of Prec bits instead of *)
(* 53, because TLC's integers have 32 bits.  The exponent is unbounded     *)
(* and zero is unsigned.  A number is a record                             *)
(*     [c |-> "fin", m |-> mantissa, e |-> exponent]   (value m * 2^e)     *)
(* with m = 0 /\ e = 0 or 2^(Prec-1) <= |m| < 2^Prec, or NaN, PosInf,      *)
(* NegInf.  Statements the program satisfies "up to rounding" are stated   *)
(* up to a few units in the last place of this format.                     *)
(***************************************************************************)
EXTENDS Integers, Sequences, FiniteSets, TLC

\* Mantissa width of the model's floating-point format (binary64 has 53).
Prec == 14

(***************************************************************************)
(* Floating-point arithmetic                                               *)
(***************************************************************************)
The(S) == CHOOSE v \in S : TRUE

AbsInt(n) == IF n < 0 THEN -n ELSE n

SgnInt(n) == IF n < 0 THEN -1 ELSE IF n = 0 THEN 0 ELSE 1

\* Number of bits of the non-negative integer n (0 for n = 0).
RECURSIVE BitLen(_)
BitLen(n) ==
  IF n >= 256 THEN 8 + BitLen(n \div 256)
  ELSE IF n >= 16
       THEN (IF n >= 64 THEN (IF n >= 128 THEN 8 ELSE 7)
                        ELSE (IF n >= 32 THEN 6 ELSE 5))
       ELSE IF n >= 4 THEN (IF n >= 8 THEN 4 ELSE 3)
            ELSE IF n >= 2 THEN 2 ELSE n

NaN == [c |-> "nan", m |-> 0, e |-> 0]

PosInf == [c |-> "inf", m |-> 1, e |-> 0]

NegInf == [c |-> "inf", m |-> -1, e |-> 0]

Zero == [c |-> "fin", m |-> 0, e |-> 0]

Inf(sign) == IF sign < 0 THEN NegInf ELSE PosInf

IsNaN(x) == x.c = "nan"

IsFinite(x) == x.c = "fin"

\* q, or q + 1 when the remainder r is above the half h, or equal to it with
\* q odd.
RoundEven(q, r, h) == IF r > h \/ (r = h /\ q % 2 = 1) THEN q + 1 ELSE q

\* The number sgn * q * 2^e for 2^(Prec-1) <= q <= 2^Prec.
Carry(sgn, q, e) ==
  IF q = 2^Prec THEN [c |-> "fin", m |-> sgn * 2^(Prec-1), e |-> e + 1]
  ELSE [c |-> "fin", m |-> sgn * q, e |-> e]

\* The number nearest to n * 2^e, n # 0 with |n| = a of Prec + s bits.
Shifted(n, a, e, s) ==
  IF s <= 0 THEN [c |-> "fin", m |-> n * 2^(-s), e |-> e + s]
  ELSE Carry(SgnInt(n), RoundEven(a \div 2^s, a % 2^s, 2^(s-1)), e + s)

\* The number nearest to n * 2^e (ties to even).
Norm(n, e) ==
  IF n = 0 THEN Zero ELSE Shifted(n, AbsInt(n), e, BitLen(AbsInt(n)) - Prec)

\* An integer literal of the source.
FromInt(n) == Norm(n, 0)

FNeg(x) == [x EXCEPT !.m = -x.m]

FAbs(x) == [x EXCEPT !.m = AbsInt(x.m)]

\* x * y
FMul(x, y) ==
  IF IsNaN(x) \/ IsNaN(y) THEN NaN
  ELSE IF x.c = "inf" \/ y.c = "inf"
       THEN IF x.m = 0 \/ y.m = 0 THEN NaN ELSE Inf(x.m * y.m)
  ELSE Norm(x.m * y.m, x.e + y.e)

\* x / y: a quotient of Prec+2 bits and a sticky bit, then rounded.
FDiv(x, y) ==
  IF IsNaN(x) \/ IsNaN(y) THEN NaN
  ELSE IF x.c = "inf"
       THEN IF y.c = "inf" THEN NaN
            ELSE Inf(x.m * (IF y.m < 0 THEN -1 ELSE 1))
  ELSE IF y.c = "inf" THEN Zero
  ELSE IF y.m = 0 THEN (IF x.m = 0 THEN NaN ELSE Inf(x.m))
  ELSE IF x.m = 0 THEN Zero
  ELSE LET d  == AbsInt(y.m)
           a  == AbsInt(x.m) * 2^Prec
           q0 == a \div d
           r0 == a % d
           b1 == IF 2 * r0 >= d THEN 1 ELSE 0
           r1 == 2 * r0 - b1 * d
           q2 == 2 * (2 * q0 + b1) + (IF r1 # 0 THEN 1 ELSE 0)
       IN Norm(SgnInt(x.m) * SgnInt(y.m) * q2, x.e - y.e - Prec - 2)

\* The mantissa n shifted right by d bits, the bits lost kept as a sticky
\* lowest bit.
ShiftSticky(n, d) ==
  IF d = 0 THEN n
  ELSE IF d >= 30 THEN (IF n = 0 THEN 0 ELSE 1)
  ELSE LET q == n \div 2^d
       IN IF n % 2^d # 0 /\ q % 2 = 0 THEN q + 1 ELSE q

\* x + y: three guard bits on the operand of larger exponent.
FAdd(x, y) ==
  IF IsNaN(x) \/ IsNaN(y) THEN NaN
  ELSE IF x.c = "inf"
       THEN IF y.c = "inf" /\ y.m # x.m THEN NaN ELSE x
  ELSE IF y.c = "inf" THEN y
  ELSE IF x.m = 0 THEN y
  ELSE IF y.m = 0 THEN x
  ELSE LET hi == IF x.e >= y.e THEN x ELSE y
           lo == IF x.e >= y.e THEN y ELSE x
           b  == SgnInt(lo.m) * ShiftSticky(AbsInt(lo.m) * 8, hi.e - lo.e)
       IN Norm(hi.m * 8 + b, hi.e - 3)

\* The integer literals of the source the model uses more than once.
Lit1 == FromInt(1)

Lit2 == FromInt(2)

Lit6 == FromInt(6)

Lit180 == FromInt(180)

\* x - y
FSub(x, y) == FAdd(x, FNeg(y))

\* x < y (false when either is NaN)
FLt(x, y) ==
  IF IsNaN(x) \/ IsNaN(y) THEN FALSE
  ELSE IF x.c = "inf" THEN x.m < 0 /\ ~(y.c = "inf" /\ y.m < 0)
  ELSE IF y.c = "inf" THEN y.m > 0
  ELSE IF SgnInt(x.m) # SgnInt(y.m) THEN SgnInt(x.m) < SgnInt(y.m)
  ELSE IF x.m = 0 THEN FALSE
  ELSE IF x.e # y.e THEN (x.m > 0) = (x.e < y.e)
  ELSE x.m < y.m

\* x >= y (false when either is NaN)
FGe(x, y) == ~IsNaN(x) /\ ~IsNaN(y) /\ ~FLt(x, y)

\* x === y and x !== y on numbers (NaN differs from everything)
FEq(x, y) == ~IsNaN(x) /\ ~IsNaN(y) /\ x = y

FNe(x, y) == ~FEq(x, y)

\* Number(value) of a slider's decimal string n/d, e.g. "0.65" as 65/100.
Number(n, d) == FDiv(FromInt(n), FromInt(d))

(***************************************************************************)
(* Math.PI, Math.sin, Math.cos, Math.asin, Math.max, Math.min              *)
(*                                                                         *)
(* The library functions are modelled to about one unit in the last place  *)
(* of the model's format: the argument is reduced to a binary angle of     *)
(* AngleBits bits per quadrant, and the sine of a quadrant is read from a  *)
(* 257-entry table (scaled by 2^20) with linear interpolation; small       *)
(* arguments use the first terms of the series.  The model keeps the facts *)
(* the program relies on: sin(0) = 0, cos(0) = 1, cos(Math.PI) = -1,       *)
(* cos(2 * Math.PI) = 1, asin(1) = Math.PI / 2, and sin, asin are odd and  *)
(* monotone on a quadrant.                                                 *)
(***************************************************************************)
\* Bits of the binary angle within one quadrant.
AngleBits == 18

\* pi * 2^28 and (2 / pi) * 2^30, rounded to integers.
PiTimes2p28 == 843314857

TwoOverPiTimes2p30 == 683565276

MathPI == Norm(PiTimes2p28, -28)

\* sin(i * pi / 512) * 2^20 for i = 0..256 (SinTable[i + 1]).
SinTable ==
  <<
     0, 6434, 12868, 19301, 25733, 32165, 38595, 45024,
     51451, 57876, 64299, 70720, 77138, 83553, 89965, 96374,
     102778, 109179, 115576, 121969, 128357, 134740, 141118, 147491,
     153858, 160219, 166575, 172924, 179267, 185602, 191931, 198253,
     204567, 210873, 217172, 223462, 229744, 236018, 242282, 248537,
     254783, 261020, 267246, 273462, 279669, 285864, 292049, 298223,
     304386, 310537, 316676, 322804, 328919, 335022, 341113, 347190,
     353255, 359306, 365343, 371367, 377377, 383373, 389354, 395321,
     401273, 407209, 413131, 419036, 424926, 430800, 436658, 442499,
     448324, 454132, 459922, 465696, 471452, 477190, 482910, 488612,
     494295, 499960, 505606, 511233, 516841, 522430, 527998, 533547,
     539076, 544584, 550072, 555539, 560986, 566411, 571815, 577197,
     582558, 587896, 593213, 598507, 603779, 609028, 614254, 619456,
     624636, 629792, 634924, 640033, 645117, 650177, 655213, 660224,
     665210, 670171, 675106, 680017, 684901, 689760, 694593, 699400,
     704181, 708935, 713662, 718362, 723036, 727682, 732301, 736892,
     741455, 745991, 750498, 754977, 759428, 763850, 768244, 772608,
     776944, 781250, 785526, 789774, 793991, 798179, 802336, 806463,
     810560, 814627, 818662, 822667, 826641, 830584, 834495, 838376,
     842224, 846041, 849826, 853579, 857300, 860988, 864645, 868268,
     871859, 875417, 878942, 882434, 885893, 889319, 892711, 896069,
     899394, 902684, 905941, 909164, 912352, 915506, 918626, 921711,
     924761, 927777, 930758, 933703, 936614, 939489, 942328, 945133,
     947901, 950634, 953332, 955993, 958618, 961208, 963761, 966278,
     968758, 971202, 973609, 975980, 978314, 980611, 982871, 985094,
     987281, 989429, 991541, 993616, 995652, 997652, 999614, 1001538,
     1003425, 1005273, 1007084, 1008857, 1010592, 1012289, 1013948, 1015569,
     1017151, 1018696, 1020201, 1021669, 1023098, 1024488, 1025840, 1027153,
     1028428, 1029664, 1030861, 1032019, 1033138, 1034219, 1035261, 1036263,
     1037227, 1038151, 1039037, 1039883, 1040690, 1041458, 1042187, 1042877,
     1043527, 1044138, 1044709, 1045242, 1045735, 1046188, 1046603, 1046978,
     1047313, 1047609, 1047865, 1048083, 1048260, 1048398, 1048497, 1048556,
     1048576
  >>

\* |x| * (2 / pi) * 2^AngleBits, rounded, modulo four quadrants.
BinAngle(x) ==
  LET m == AbsInt(x.m)
      t == m * (TwoOverPiTimes2p30 \div 2^15)
           + (m * (TwoOverPiTimes2p30 % 2^15)) \div 2^15
      s == x.e + AngleBits - 15
  IN IF s >= AngleBits + 2 THEN 0
     ELSE IF s >= 0 THEN (t % 2^(AngleBits + 2 - s)) * 2^s
     ELSE IF -s >= 31 THEN 0
     ELSE ((t + 2^(-s-1)) \div 2^(-s)) % 2^(AngleBits + 2)

\* The entry i of the table T, moved r / w of the way to the entry i + 1.
Interpolate(T, i, r, w) ==
  IF r = 0 THEN T[i + 1]
  ELSE T[i + 1] + ((T[i + 2] - T[i + 1]) * r + w \div 2) \div w

\* sin of the binary angle u in 0..2^AngleBits (one quadrant), times 2^20.
QuarterSin(u) ==
  Interpolate(SinTable, u \div 2^(AngleBits - 8), u % 2^(AngleBits - 8),
              2^(AngleBits - 8))

\* sin of the angle u of quadrant q (0..3), times 2^20.
QuadrantSin(q, u) ==
  (IF q < 2 THEN 1 ELSE -1)
  * QuarterSin(IF q % 2 = 0 THEN u ELSE 2^AngleBits - u)

\* sin of the binary angle a in 0..2^(AngleBits+2)-1, times 2^20.
SinBin(a) == QuadrantSin(a \div 2^AngleBits, a % 2^AngleBits)

\* Math.sin(x), x in radians
MathSin(x) ==
  IF ~IsFinite(x) THEN NaN
  ELSE IF x.m = 0 THEN Zero
  ELSE IF x.e + Prec <= -3
       THEN FMul(x, FSub(Lit1, FDiv(FMul(x, x), Lit6)))
  ELSE Norm(SgnInt(x.m) * SinBin(BinAngle(x)), -20)

\* Math.cos(x), x in radians
MathCos(x) ==
  IF ~IsFinite(x) THEN NaN
  ELSE Norm(SinBin((BinAngle(x) + 2^AngleBits) % 2^(AngleBits + 2)), -20)

\* The least u in lo..hi with QuarterSin(u) >= v (hi when there is none).
RECURSIVE AsinSearch(_, _, _)
AsinSearch(lo, hi, v) ==
  IF lo >= hi THEN hi
  ELSE LET mid == (lo + hi) \div 2
       IN IF QuarterSin(mid) >= v THEN AsinSearch(lo, mid, v)
          ELSE AsinSearch(mid + 1, hi, v)

\* Of u1 and u1 - 1, the binary angle whose sine is nearer to v.
Nearer(u1, v) ==
  IF u1 > 0 /\ v - QuarterSin(u1 - 1) < QuarterSin(u1) - v THEN u1 - 1
  ELSE u1

\* The binary angle of one quadrant whose sine is nearest to v / 2^20.
AsinBin(v) == Nearer(AsinSearch(0, 2^AngleBits, v), v)

\* Math.asin(x): NaN outside [-1, 1]
MathAsin(x) ==
  IF ~IsFinite(x) \/ FLt(Lit1, FAbs(x)) THEN NaN
  ELSE IF x.m = 0 THEN Zero
  ELSE IF FAbs(x) = Lit1 THEN FMul(Norm(SgnInt(x.m), -1), MathPI)
  ELSE IF x.e + Prec <= -3
       THEN FMul(x, FAdd(Lit1, FDiv(FMul(x, x), Lit6)))
  ELSE FMul(Norm(SgnInt(x.m) * AsinBin(AbsInt(x.m) * 2^(x.e + 20)),
                 -AngleBits - 1),
            MathPI)

\* Math.max(x, y) and Math.min(x, y): NaN when either is NaN
MathMax(x, y) == IF IsNaN(x) \/ IsNaN(y) THEN NaN ELSE IF FLt(x, y) THEN y ELSE x

MathMin(x, y) == IF IsNaN(x) \/ IsNaN(y) THEN NaN ELSE IF FLt(y, x) THEN y ELSE x

\* Math.abs(x)
MathAbs(x) == FAbs(x)

\* x % y of JavaScript on finite numbers: the exact remainder, with the sign
\* of the dividend.
RECURSIVE ShiftMod(_, _, _)
ShiftMod(r, k, d) == IF k = 0 THEN r ELSE ShiftMod((2 * r) % d, k - 1, d)

FMod(x, y) ==
  IF ~IsFinite(x) \/ IsNaN(y) THEN NaN
  ELSE IF y.c = "inf" THEN x
  ELSE IF y.m = 0 THEN NaN
  ELSE IF x.m = 0 \/ FLt(FAbs(x), FAbs(y)) THEN x
  ELSE IF x.e >= y.e
       THEN Norm(SgnInt(x.m)
                 * ShiftMod(AbsInt(x.m) % AbsInt(y.m), x.e - y.e, AbsInt(y.m)),
                 y.e)
  ELSE Norm(SgnInt(x.m) * (AbsInt(x.m) % (AbsInt(y.m) * 2^(y.e - x.e))), x.e)

(***************************************************************************)
(* squatSimulatorCalculations.js                                           *)
(***************************************************************************)
\* The null of a femurDrag ref.
Null == [c |-> "null", m |-> 0, e |-> 0]

\* degrees * Math.PI / 180
ToRadians(deg) == FDiv(FMul(deg, MathPI), Lit180)

\* radians * (180 / Math.PI)
ToDegrees(rad) == FMul(rad, FDiv(Lit180, MathPI))

\* Defaults with a torso too short to balance: the ratio falls below -1.
initialShortTorso ==
  [thighAngle  |-> FromInt(90),
   shinAngle   |-> FromInt(45),
   torsoLength |-> Number(30, 100),
   femurLength |-> Number(48, 100),
   shinLength  |-> Number(41, 100),
   feetLength  |-> Number(24, 100)]

\* The hard-coded default parameters.
initial ==
  [thighAngle  |-> FromInt(90),
   shinAngle   |-> FromInt(45),
   torsoLength |-> Number(50, 100),
   femurLength |-> Number(48, 100),
   shinLength  |-> Number(41, 100),
   feetLength  |-> Number(24, 100)]

\* (-feetLength / 2 - shinLength * sin(psi) - femurLength * sin(phi))
\*   / torsoLength
BalanceRatio(p, psi, phi) ==
  FDiv(FSub(FSub(FDiv(FNeg(p.feetLength), Lit2),
                 FMul(p.shinLength, MathSin(psi))),
            FMul(p.femurLength, MathSin(phi))),
       p.torsoLength)

\* Math.asin(ratio), the ratio as it is.
UnclampedAsin(ratio) == MathAsin(ratio)

\* Math.asin(Math.max(-1, Math.min(1, ratio)))
ClampedAsin(ratio) == MathAsin(MathMax(FromInt(-1), MathMin(Lit1, ratio)))

calculateInitialValues ==
  LET psi0   == ToRadians(FNeg(initial.shinAngle))
      phi    == ToRadians(initial.thighAngle)
      ratio0 == BalanceRatio(initial, psi0, phi)
      theta0 == ClampedAsin(ratio0)
      H0     == FAdd(FAdd(initial.shinLength, initial.femurLength),
                     initial.torsoLength)
      R_shin == FDiv(initial.shinAngle, MathAbs(ToDegrees(theta0)))
  IN [thighAngle  |-> initial.thighAngle,
      shinAngle   |-> initial.shinAngle,
      torsoLength |-> initial.torsoLength,
      femurLength |-> initial.femurLength,
      shinLength  |-> initial.shinLength,
      feetLength  |-> initial.feetLength,
      psi0 |-> psi0, phi |-> phi, theta0 |-> theta0, H0 |-> H0,
      T0 |-> initial.torsoLength, S0 |-> initial.shinLength,
      R_shin |-> R_shin]

\* R_fixed, TS_fixed and H_fixed: the snapshot's value, or the default when
\* the ref is null.
RFixed(initialValues, femurDragRatio) ==
  IF femurDragRatio # Null THEN femurDragRatio ELSE initialValues.R_shin

TSFixed(initialValues, femurDragTSRatio) ==
  IF femurDragTSRatio # Null THEN femurDragTSRatio
  ELSE FDiv(initialValues.T0, initialValues.S0)

\* H_fixed that ignores the snapshot.
HFixedDefault(initialValues, femurDragShoulderHeight) == initialValues.H0

HFixed(initialValues, femurDragShoulderHeight) ==
  IF femurDragShoulderHeight # Null THEN femurDragShoulderHeight
  ELSE initialValues.H0

\* newShin that divides by TS_fixed.
NewShinByRatio(newFemur, TS_fixed, H_fixed) ==
  FDiv(FSub(H_fixed, newFemur), TS_fixed)

\* newShin = (H_fixed - newFemur) / (1 + TS_fixed)
NewShin(newFemur, TS_fixed, H_fixed) ==
  FDiv(FSub(H_fixed, newFemur), FAdd(Lit1, TS_fixed))

\* newTorso that adds TS_fixed.
NewTorsoBySum(TS_fixed, newShin) == FAdd(TS_fixed, newShin)

\* newTorso = TS_fixed * newShin
NewTorso(TS_fixed, newShin) == FMul(TS_fixed, newShin)

\* The loop's iteration count, and the bracket [0, 90] in degrees.
BisectionIterations == 30

BracketHigh == 90

High == FromInt(BracketHigh)

Tolerance == Number(1, 1000000)

\* low, high and x_deg are 90 * k / 2^BisectionIterations for an integer k:
\* every midpoint of the loop is such a number, and binary64 holds each of
\* them exactly.  DegOf(k) is that number as an operand of the arithmetic.
DegOf(k) == FMul(Norm(k, -BisectionIterations), High)

\* f(x_deg); c is the part of f that does not depend on x_deg.
FOf(x_deg, c) ==
  FSub(FSub(FAdd(FMul(c.newShin, MathSin(ToRadians(FMul(c.R_fixed, x_deg)))),
                 FMul(c.newTorso, MathSin(ToRadians(x_deg)))),
            c.femurTerm),
       c.feetTerm)

\* An iteration that sets x_deg only when it leaves the loop.
BisectStepKeepsX(s, f_mid, c) ==
  IF FLt(MathAbs(f_mid), Tolerance)
  THEN [s EXCEPT !.i = s.i + 1, !.x = (s.lo + s.hi) \div 2, !.done = TRUE]
  ELSE IF FLt(FMul(s.flo, f_mid), Zero)
       THEN [s EXCEPT !.i = s.i + 1, !.hi = (s.lo + s.hi) \div 2]
       ELSE [s EXCEPT !.i = s.i + 1, !.lo = (s.lo + s.hi) \div 2,
                      !.flo = f_mid]

\* An iteration that moves low to the midpoint before it leaves through
\* break.
BisectStepMovesOnBreak(s, f_mid, c) ==
  IF FLt(MathAbs(f_mid), Tolerance)
  THEN [s EXCEPT !.i = s.i + 1, !.x = (s.lo + s.hi) \div 2,
                 !.lo = (s.lo + s.hi) \div 2, !.done = TRUE]
  ELSE IF FLt(FMul(s.flo, f_mid), Zero)
       THEN [s EXCEPT !.i = s.i + 1, !.x = (s.lo + s.hi) \div 2,
                      !.hi = (s.lo + s.hi) \div 2]
       ELSE [s EXCEPT !.i = s.i + 1, !.x = (s.lo + s.hi) \div 2,
                      !.lo = (s.lo + s.hi) \div 2, !.flo = f_mid]

\* An iteration that moves the other end of the bracket.
BisectStepSwapped(s, f_mid, c) ==
  IF FLt(MathAbs(f_mid), Tolerance)
  THEN [s EXCEPT !.i = s.i + 1, !.x = (s.lo + s.hi) \div 2, !.done = TRUE]
  ELSE IF FLt(FMul(s.flo, f_mid), Zero)
       THEN [s EXCEPT !.i = s.i + 1, !.x = (s.lo + s.hi) \div 2,
                      !.lo = (s.lo + s.hi) \div 2, !.flo = f_mid]
       ELSE [s EXCEPT !.i = s.i + 1, !.x = (s.lo + s.hi) \div 2,
                      !.hi = (s.lo + s.hi) \div 2]

\* The loop's variables after one more iteration: s = [i, x, lo, hi, flo,
\* done] holds the iterations run, x_deg, low and high (as numerators of
\* DegOf), f(low), and whether the loop has left through break.  The code
\* evaluates f(low) anew in every iteration; f is a pure function, and the
\* model carries the value.
BisectStep(s, f_mid, c) ==
  IF FLt(MathAbs(f_mid), Tolerance)
  THEN [s EXCEPT !.i = s.i + 1, !.x = (s.lo + s.hi) \div 2, !.done = TRUE]
  ELSE IF FLt(FMul(s.flo, f_mid), Zero)
       THEN [s EXCEPT !.i = s.i + 1, !.x = (s.lo + s.hi) \div 2,
                      !.hi = (s.lo + s.hi) \div 2]
       ELSE [s EXCEPT !.i = s.i + 1, !.x = (s.lo + s.hi) \div 2,
                      !.lo = (s.lo + s.hi) \div 2, !.flo = f_mid]

\* One iteration from each state of S (a set of one state) not yet done.
BisectIter(S, c) ==
  {IF s.done THEN s
   ELSE The({BisectStep(s, f_mid, c) :
               f_mid \in {FOf(DegOf((s.lo + s.hi) \div 2), c)}}) : s \in S}

\* n iterations.
RECURSIVE Bisect(_, _, _)
Bisect(n, S, c) == IF n = 0 THEN S ELSE BisectIter(Bisect(n - 1, S, c), c)

\* The loop's variables before its first iteration: low = 0, high = 90,
\* x_deg = 0.
LoopStart(c) ==
  [i |-> 0, x |-> 0, lo |-> 0, hi |-> 2^BisectionIterations,
   flo |-> FOf(Zero, c), done |-> FALSE]

\* The bisection of calculateFemurLengthUpdate: the loop's variables at its
\* end.
SolveBackAngle(c) ==
  The(UNION {Bisect(BisectionIterations, {LoopStart(cv)}, cv) : cv \in {c}})

\* What f closes over: newShin, newTorso, R_fixed, newFemur * sin(phi) and
\* feetLength / 2.
ClosureOfF(newFemur, newShin, newTorso, R_fixed, phi, feetLength) ==
  [newShin |-> newShin, newTorso |-> newTorso, R_fixed |-> R_fixed,
   femurTerm |-> FMul(newFemur, MathSin(phi)),
   feetTerm |-> FDiv(feetLength, Lit2)]

\* A solver whose f takes phi from the current thighAngle.
calculateFemurLengthUpdateAtThigh(newFemur, parameters, initialValues, femurDragRatio, femurDragTSRatio, femurDragShoulderHeight) ==
  LET R_fixed    == RFixed(initialValues, femurDragRatio)
      TS_fixed   == TSFixed(initialValues, femurDragTSRatio)
      H_fixed    == HFixed(initialValues, femurDragShoulderHeight)
      newShin    == NewShin(newFemur, TS_fixed, H_fixed)
      newTorso   == NewTorso(TS_fixed, newShin)
      c == ClosureOfF(newFemur, newShin, newTorso, R_fixed,
                      ToRadians(parameters.thighAngle), parameters.feetLength)
      sol == SolveBackAngle(c)
  IN [newShin |-> newShin, newTorso |-> newTorso,
      newShinAngle |-> FMul(R_fixed, DegOf(sol.x))]

calculateFemurLengthUpdate(newFemur, parameters, initialValues, femurDragRatio, femurDragTSRatio, femurDragShoulderHeight) ==
  LET phi        == initialValues.phi
      feetLength == parameters.feetLength
      R_fixed    == RFixed(initialValues, femurDragRatio)
      TS_fixed   == TSFixed(initialValues, femurDragTSRatio)
      H_fixed    == HFixed(initialValues, femurDragShoulderHeight)
      newShin    == NewShin(newFemur, TS_fixed, H_fixed)
      newTorso   == NewTorso(TS_fixed, newShin)
      c == ClosureOfF(newFemur, newShin, newTorso, R_fixed, phi, feetLength)
      sol == SolveBackAngle(c)
  IN [newShin |-> newShin, newTorso |-> newTorso,
      newShinAngle |-> FMul(R_fixed, DegOf(sol.x))]

\* An easing that sweeps 0 -> 2 -> 0.
OvershootProgress(t) ==
  FSub(Lit1, MathCos(FMul(FMul(t, Lit2), MathPI)))

\* An easing that is linear in t.
LinearProgress(t) == t

\* An easing that sweeps 1 -> 0 -> 1.
InvertedProgress(t) ==
  FDiv(FAdd(Lit1, MathCos(FMul(FMul(t, Lit2), MathPI))), Lit2)

\* calculateSmoothProgress(t) = (1 - Math.cos(t * 2 * Math.PI)) / 2
calculateSmoothProgress(t) ==
  LET angle == FMul(FMul(t, Lit2), MathPI)
  IN FDiv(FSub(Lit1, MathCos(angle)), Lit2)

\* A completion test that misses the boundary progress = 1.
IsCompleteStrict(progress) == FLt(Lit1, progress)

\* A completion test that holds at the boundary only.
IsCompleteAtEnd(progress) == FEq(progress, Lit1)

\* if (progress >= 1)
IsComplete(progress) == FGe(progress, Lit1)

\* calculateAnimationFrame; startTime is a parameter the code never reads.
calculateAnimationFrame(currentTime, startTime, duration, cycles, squattedThighAngle, squattedShinAngle, standingThighAngle, standingShinAngle) ==
  LET totalDuration == FMul(duration, cycles)
      progress      == FDiv(currentTime, totalDuration)
      cycleProgress == FDiv(FMod(currentTime, duration), duration)
      smoothProgress == calculateSmoothProgress(cycleProgress)
      thighAngleRange == FSub(squattedThighAngle, standingThighAngle)
      shinAngleRange  == FSub(squattedShinAngle, standingShinAngle)
  IN IF IsComplete(progress)
     THEN [isComplete |-> TRUE,
           currentThighAngle |-> squattedThighAngle,
           currentShinAngle  |-> squattedShinAngle]
     ELSE [isComplete |-> FALSE,
           currentThighAngle |->
             FSub(squattedThighAngle, FMul(thighAngleRange, smoothProgress)),
           currentShinAngle |->
             FSub(squattedShinAngle, FMul(shinAngleRange, smoothProgress))]

\* angleRatio that divides by the back angle whatever it is.
AngleRatioUnguarded(shinAngle, torsoAngleDeg) == FDiv(shinAngle, torsoAngleDeg)

\* torsoAngleDeg !== 0 ? parameters.shinAngle / torsoAngleDeg : 0
AngleRatio(shinAngle, torsoAngleDeg) ==
  IF FNe(torsoAngleDeg, Zero) THEN FDiv(shinAngle, torsoAngleDeg) ELSE Zero

calculateAnglesAndJoints(parameters) ==
  LET phi == ToRadians(parameters.thighAngle)
      psi == ToRadians(FNeg(parameters.shinAngle))
      ratio == BalanceRatio(parameters, psi, phi)
      thetaRadRaw == ClampedAsin(ratio)
      torsoAngleDeg == MathAbs(ToDegrees(thetaRadRaw))
      shoulderHeight == FAdd(FAdd(parameters.shinLength, parameters.femurLength),
                             parameters.torsoLength)
      TS_ratio == FDiv(parameters.torsoLength, parameters.shinLength)
      angleRatio == AngleRatio(parameters.shinAngle, torsoAngleDeg)
      ankle == [x |-> Zero, y |-> Zero]
      knee  == [x |-> FMul(parameters.shinLength, MathSin(psi)),
                y |-> FMul(parameters.shinLength, MathCos(psi))]
      hip   == [x |-> FAdd(knee.x, FMul(parameters.femurLength, MathSin(phi))),
                y |-> FAdd(knee.y, FMul(parameters.femurLength, MathCos(phi)))]
      torsoTop ==
        [x |-> FAdd(hip.x, FMul(parameters.torsoLength, MathSin(thetaRadRaw))),
         y |-> FAdd(hip.y, FMul(parameters.torsoLength, MathCos(thetaRadRaw)))]
  IN [phi |-> phi, psi |-> psi, thetaRadRaw |-> thetaRadRaw,
      torsoAngleDeg |-> torsoAngleDeg, shoulderHeight |-> shoulderHeight,
      TS_ratio |-> TS_ratio, angleRatio |-> angleRatio,
      joints |-> [ankle |-> ankle, knee |-> knee, hip |-> hip,
                  torsoTop |-> torsoTop]]

\* A transform that subtracts the other way round.
toSVGCoordsShifted(point) ==
  [x |-> point.x, y |-> FSub(point.y, Number(15, 10))]

\* toSVGCoords(point) = {x: point.x, y: 1.5 - point.y}
toSVGCoords(point) == [x |-> point.x, y |-> FSub(Number(15, 10), point.y)]

(***************************************************************************)
(* SquatSimulator.js: the component's state and its event handlers         *)
(***************************************************************************)
VARIABLES
  parameters,                \* useState: the six parameters
  femurDragRatio,            \* useRef(null)
  femurDragTSRatio,          \* useRef(null)
  femurDragShoulderHeight,   \* useRef(null)
  dragging,      \* history: a pointerdown on the femur slider, no pointerup since
  atStart,       \* history: the parameters at that pointerdown
  lastRead,      \* history: the refs as the femurLength update just made read them
  edits,         \* history: the number of femurLength updates so far
  gestures,      \* history: the number of pointerdowns so far
  call,          \* a call of calculateFemurLengthUpdate: its inputs and result
  anim,          \* an animation run: its inputs, the poll time, the frames
  bisect,        \* a call of calculateFemurLengthUpdate, inside its loop
  pose           \* a call of calculateAnglesAndJoints: its input and result

vars == <<parameters, femurDragRatio, femurDragTSRatio,
          femurDragShoulderHeight, dragging, atStart, lastRead, edits,
          gestures, call, anim, bisect, pose>>

\* useRef(calculateInitialValues())
initialValues == calculateInitialValues

\* The three refs' current values.
Refs == <<femurDragRatio, femurDragTSRatio, femurDragShoulderHeight>>

\* A setParameters that stores newShin under torsoLength and newTorso under
\* shinLength.
SetFemurSwapped(newFemur, r) ==
  [parameters EXCEPT !.femurLength = newFemur,
                     !.torsoLength = r.newShin,
                     !.shinLength  = r.newTorso,
                     !.shinAngle   = r.newShinAngle]

\* setParameters of the femurLength branch, r the solver's result.
SetFemur(newFemur, r) ==
  [parameters EXCEPT !.femurLength = newFemur,
                     !.torsoLength = r.newTorso,
                     !.shinLength  = r.newShin,
                     !.shinAngle   = r.newShinAngle]

\* An updateParameter that routes every key through
\* calculateFemurLengthUpdate.
updateParameterRouted(key, numValue) ==
  IF key = "femurLength"
  THEN SetFemur(numValue,
                calculateFemurLengthUpdate(numValue, parameters, initialValues,
                                           femurDragRatio, femurDragTSRatio,
                                           femurDragShoulderHeight))
  ELSE [SetFemur(parameters.femurLength,
                 calculateFemurLengthUpdate(parameters.femurLength, parameters,
                                            initialValues, femurDragRatio,
                                            femurDragTSRatio,
                                            femurDragShoulderHeight))
          EXCEPT ![key] = numValue]

\* The parameters after updateParameter(key, value), numValue = Number(value).
updateParameter(key, numValue) ==
  IF key = "femurLength"
  THEN SetFemur(numValue,
                calculateFemurLengthUpdate(numValue, parameters, initialValues,
                                           femurDragRatio, femurDragTSRatio,
                                           femurDragShoulderHeight))
  ELSE [parameters EXCEPT ![key] = numValue]

\* A capture that leaves femurDragShoulderHeight unset.
SnapshotWithoutHeight(p) ==
  [ratio |-> initialValues.R_shin,
   tsRatio |-> FDiv(p.torsoLength, p.shinLength),
   shoulderHeight |-> Null]

\* A capture that divides by the back angle whatever it is.
SnapshotUnguarded(p) ==
  [ratio |-> FDiv(p.shinAngle,
                  MathAbs(ToDegrees(ClampedAsin(
                    BalanceRatio(p, ToRadians(FNeg(p.shinAngle)),
                                 ToRadians(p.thighAngle)))))),
   tsRatio |-> FDiv(p.torsoLength, p.shinLength),
   shoulderHeight |-> FAdd(FAdd(p.shinLength, p.femurLength), p.torsoLength)]

\* The three values onPointerDown stores.
SnapshotOf(p) ==
  LET phi_current   == ToRadians(p.thighAngle)
      psi_current   == ToRadians(FNeg(p.shinAngle))
      currentRatio  == BalanceRatio(p, psi_current, phi_current)
      theta_current == ClampedAsin(currentRatio)
      backAngleDeg  == MathAbs(ToDegrees(theta_current))
  IN [ratio |-> IF FNe(backAngleDeg, Zero)
                THEN FDiv(p.shinAngle, backAngleDeg)
                ELSE initialValues.R_shin,
      tsRatio |-> FDiv(p.torsoLength, p.shinLength),
      shoulderHeight |-> FAdd(FAdd(p.shinLength, p.femurLength), p.torsoLength)]

\* A pointerup that leaves femurDragRatio as it is.
RatioKept == <<femurDragRatio, Null, Null>>

\* The three values onPointerUp stores.
Cleared == <<Null, Null, Null>>

NoCall == [made |-> FALSE, newFemur |-> Null, ratio |-> Null,
           tsRatio |-> Null, shoulderHeight |-> Null,
           result |-> [newShin |-> Null, newTorso |-> Null,
                       newShinAngle |-> Null]]

NoFrame == [isComplete |-> FALSE, currentThighAngle |-> Null,
            currentShinAngle |-> Null]

NoAnim == [polled |-> FALSE, duration |-> 0, cycles |-> 0,
           squatted |-> <<0, 0>>, standing |-> <<0, 0>>, currentTime |-> 0,
           frame |-> NoFrame, prev |-> NoFrame]

NoRead == <<>>

NoBisect == [made |-> FALSE]

NoPose == [made |-> FALSE]

\* The component after mounting.
Mounted ==
  /\ parameters = [k \in DOMAIN initial |-> initialValues[k]]
  /\ femurDragRatio = Null
  /\ femurDragTSRatio = Null
  /\ femurDragShoulderHeight = Null
  /\ dragging = FALSE
  /\ atStart = parameters
  /\ lastRead = NoRead
  /\ edits = 0
  /\ gestures = 0

Init ==
  Mounted /\ call = NoCall /\ anim = NoAnim /\ bisect = NoBisect /\ pose = NoPose

\* onChange of a slider: updateParameter(key, e.target.value).
OnChange(key, numValue) ==
  /\ parameters' = updateParameter(key, numValue)
  /\ lastRead' = IF key = "femurLength" THEN Refs ELSE NoRead
  /\ edits' = IF key = "femurLength" THEN edits + 1 ELSE edits
  /\ UNCHANGED <<femurDragRatio, femurDragTSRatio, femurDragShoulderHeight,
                 dragging, atStart, gestures, call, anim, bisect, pose>>

\* onPointerDown of the femur slider.
OnPointerDown ==
  /\ femurDragRatio' = SnapshotOf(parameters).ratio
  /\ femurDragTSRatio' = SnapshotOf(parameters).tsRatio
  /\ femurDragShoulderHeight' = SnapshotOf(parameters).shoulderHeight
  /\ dragging' = TRUE
  /\ atStart' = parameters
  /\ lastRead' = NoRead
  /\ gestures' = gestures + 1
  /\ UNCHANGED <<parameters, edits, call, anim, bisect, pose>>

\* onPointerUp of the femur slider.
OnPointerUp ==
  /\ femurDragRatio' = Cleared[1]
  /\ femurDragTSRatio' = Cleared[2]
  /\ femurDragShoulderHeight' = Cleared[3]
  /\ dragging' = FALSE
  /\ lastRead' = NoRead
  /\ UNCHANGED <<parameters, atStart, edits, gestures, call, anim, bisect,
                 pose>>

(***************************************************************************)
(* Spec: the sliders and the femur slider's pointer events in any order.   *)
(* A range input fires onChange when its value changes, so an onChange     *)
(* carries a value other than the stored one; any value of the slider's    *)
(* range can follow any stored value.  The femur slider's onChange comes    *)
(* with the pointer (between pointerdown and pointerup) or from the         *)
(* keyboard (no pointer event at all).                                      *)
(***************************************************************************)
\* The femurLength updates and the pointerdowns a behaviour of Spec makes.
MaxFemurEdits == 2

MaxGestures == 2

\* The values the model moves a slider to, as decimal strings n/d: the ends
\* of the slider's range in sliderConfigs (femurLength 0.25..0.65,
\* torsoLength 0.30..0.75, shinLength 0.23..0.63) or a value inside it
\* (thighAngle 0..180).  The shinAngle and the feetLength slider run the
\* same branch of updateParameter as the other three of OtherKeys.
SliderValues ==
  [femurLength |-> {<<25, 100>>, <<65, 100>>},
   thighAngle  |-> {<<60, 1>>},
   torsoLength |-> {<<30, 100>>, <<75, 100>>},
   shinLength  |-> {<<23, 100>>}]

OtherKeys == {"thighAngle", "torsoLength", "shinLength"}

\* onChange of a slider other than the femur slider.
ChangeOther ==
  \E key \in OtherKeys : \E v \in SliderValues[key] :
    /\ Number(v[1], v[2]) # parameters[key]
    /\ OnChange(key, Number(v[1], v[2]))

\* onChange of the femur slider.
ChangeFemur ==
  \E v \in SliderValues.femurLength :
    /\ edits < MaxFemurEdits
    /\ Number(v[1], v[2]) # parameters.femurLength
    /\ OnChange("femurLength", Number(v[1], v[2]))

PointerDown == gestures < MaxGestures /\ OnPointerDown

PointerUp == OnPointerUp

Next == ChangeOther \/ ChangeFemur \/ PointerDown \/ PointerUp

Spec == Init /\ [][Next]_vars

(***************************************************************************)
(* DragSpec: the femur slider moved with the pointer only, once in each    *)
(* gesture, between its two ends; between gestures the torso slider is     *)
(* moved between its two ends and the shin slider to its minimum.  Every   *)
(* behaviour of DragSpec is a behaviour of the component.                  *)
(***************************************************************************)
\* The gestures a behaviour of DragSpec makes.
MaxDrags == 4

DragValues ==
  [femurLength |-> {<<25, 100>>, <<65, 100>>},
   torsoLength |-> {<<30, 100>>, <<75, 100>>},
   shinLength  |-> {<<23, 100>>}]

\* onChange of the torso or the shin slider, outside a gesture.
SetLength ==
  \E key \in {"torsoLength", "shinLength"} : \E v \in DragValues[key] :
    /\ ~dragging
    /\ Number(v[1], v[2]) # parameters[key]
    /\ OnChange(key, Number(v[1], v[2]))

\* onPointerDown of the femur slider.
StartDrag == ~dragging /\ gestures < MaxDrags /\ OnPointerDown

\* onChange of the femur slider, in a gesture.
DragFemur ==
  \E v \in DragValues.femurLength :
    /\ dragging
    /\ lastRead = NoRead
    /\ Number(v[1], v[2]) # parameters.femurLength
    /\ OnChange("femurLength", Number(v[1], v[2]))

\* onPointerUp of the femur slider.
EndDrag == dragging /\ OnPointerUp

DragNext == SetLength \/ StartDrag \/ DragFemur \/ EndDrag

DragSpec == Init /\ [][DragNext]_vars

(***************************************************************************)
(* SolverSpec: calculateFemurLengthUpdate as a function of newFemur and    *)
(* the snapshot, called with the default parameters and InitialValues.     *)
(***************************************************************************)
\* newFemur, as decimal strings n/d.
FemurInputs == {<<25, 100>>, <<45, 100>>, <<65, 100>>}

\* The snapshot's three fields: null, or a decimal string n/d.  tsRatio is
\* a quotient of two lengths and shoulderHeight a sum of three; 0.65 is a
\* shoulderHeight that a newFemur equals and 0.6 one below a newFemur.
SnapshotRatios == {<<>>, <<1, 2>>, <<3, 2>>}

SnapshotTSRatios == {<<>>, <<1, 2>>, <<13, 10>>, <<3, 1>>}

SnapshotHeights == {<<>>, <<6, 10>>, <<65, 100>>, <<1, 1>>, <<139, 100>>}

\* The ref holding v.
RefOf(v) == IF v = <<>> THEN Null ELSE Number(v[1], v[2])

\* The record of a call.
CallOf(newFemur, ratio, tsRatio, shoulderHeight) ==
  [made |-> TRUE, newFemur |-> newFemur, ratio |-> ratio,
   tsRatio |-> tsRatio, shoulderHeight |-> shoulderHeight,
   result |-> calculateFemurLengthUpdate(newFemur, parameters, initialValues,
                                         ratio, tsRatio, shoulderHeight)]

\* One call, of a behaviour's single call.
CallSolver ==
  /\ ~call.made
  /\ \E f \in FemurInputs : \E r \in SnapshotRatios :
       \E ts \in SnapshotTSRatios : \E h \in SnapshotHeights :
         call' = CallOf(Number(f[1], f[2]), RefOf(r), RefOf(ts), RefOf(h))
  /\ UNCHANGED <<parameters, femurDragRatio, femurDragTSRatio,
                 femurDragShoulderHeight, dragging, atStart, lastRead, edits,
                 gestures, anim, bisect, pose>>

SolverSpec == Init /\ [][CallSolver]_vars

(***************************************************************************)
(* BisectSpec: one call of calculateFemurLengthUpdate with the default     *)
(* InitialValues and parameters that have the default feetLength or        *)
(* another one of the slider's range, an iteration of its loop at a time.  *)
(* bisect holds the call's closure c, the loop's variables s, the bracket  *)
(* [low, high] the last iteration started from with f at its two ends      *)
(* (from), f(high) of the present bracket (fhi), and the value returned.    *)
(***************************************************************************)
\* The bracket of the loop's variables s, with f at its ends.
BracketOf(s, fhi) == [lo |-> s.lo, hi |-> s.hi, flo |-> s.flo, fhi |-> fhi]

\* feetLength of the parameters, as decimal strings n/d.
FeetInputs == {<<24, 100>>, <<25, 100>>}

\* The call at the loop's start, c what f closes over.
EnteredAt(newFemur, feetLength, ratio, tsRatio, shoulderHeight, c) ==
  [made |-> TRUE, returned |-> FALSE, newFemur |-> newFemur,
   feetLength |-> feetLength,
   ratio |-> ratio, tsRatio |-> tsRatio, shoulderHeight |-> shoulderHeight,
   c |-> c,
   s |-> LoopStart(c), f0 |-> FOf(Zero, c), f90 |-> FOf(High, c),
   fhi |-> FOf(High, c),
   from |-> [lo |-> 0, hi |-> 0, flo |-> Zero, fhi |-> Zero],
   result |-> [newShin |-> c.newShin, newTorso |-> c.newTorso,
               newShinAngle |-> Null]]

\* Lines 40-60: what f closes over in a call with these arguments.
ClosureOfCall(newFemur, feetLength, ratio, tsRatio, shoulderHeight) ==
  LET R_fixed  == RFixed(initialValues, ratio)
      TS_fixed == TSFixed(initialValues, tsRatio)
      H_fixed  == HFixed(initialValues, shoulderHeight)
      newShin  == NewShin(newFemur, TS_fixed, H_fixed)
      newTorso == NewTorso(TS_fixed, newShin)
  IN ClosureOfF(newFemur, newShin, newTorso, R_fixed, initialValues.phi,
                feetLength)

EnteredWith(newFemur, feetLength, ratio, tsRatio, shoulderHeight) ==
  The({EnteredAt(newFemur, feetLength, ratio, tsRatio, shoulderHeight, cv) :
         cv \in {ClosureOfCall(newFemur, feetLength, ratio, tsRatio,
                               shoulderHeight)}})

\* Lines 40-64: the call up to the loop.
EnterLoop ==
  /\ ~bisect.made
  /\ \E f \in FemurInputs : \E ft \in FeetInputs : \E r \in SnapshotRatios :
       \E ts \in SnapshotTSRatios : \E h \in SnapshotHeights :
         bisect' = EnteredWith(Number(f[1], f[2]), Number(ft[1], ft[2]),
                               RefOf(r), RefOf(ts), RefOf(h))
  /\ UNCHANGED <<parameters, femurDragRatio, femurDragTSRatio,
                 femurDragShoulderHeight, dragging, atStart, lastRead, edits,
                 gestures, call, anim, pose>>

\* The call b after one more iteration, t the loop's variables after it.
Iterated(b, t) ==
  [b EXCEPT !.s = t,
            !.from = BracketOf(b.s, b.fhi),
            !.fhi = IF t.hi = b.s.hi THEN b.fhi ELSE FOf(DegOf(t.hi), b.c)]

\* Lines 65-74: one iteration of the loop.
Iterate ==
  /\ bisect.made
  /\ ~bisect.returned
  /\ ~bisect.s.done
  /\ bisect.s.i < BisectionIterations
  /\ bisect' = Iterated(bisect, The(BisectIter({bisect.s}, bisect.c)))
  /\ UNCHANGED <<parameters, femurDragRatio, femurDragTSRatio,
                 femurDragShoulderHeight, dragging, atStart, lastRead, edits,
                 gestures, call, anim, pose>>

\* Lines 75-76: newShinAngle = R_fixed * x_deg and the return.
Return ==
  /\ bisect.made
  /\ ~bisect.returned
  /\ bisect.s.done \/ bisect.s.i = BisectionIterations
  /\ bisect' = [bisect EXCEPT !.returned = TRUE,
                  !.result.newShinAngle =
                     FMul(bisect.c.R_fixed, DegOf(bisect.s.x))]
  /\ UNCHANGED <<parameters, femurDragRatio, femurDragTSRatio,
                 femurDragShoulderHeight, dragging, atStart, lastRead, edits,
                 gestures, call, anim, pose>>

BisectNext == EnterLoop \/ Iterate \/ Return

BisectSpec == Init /\ [][BisectNext]_vars


(***************************************************************************)
(* PoseSpec: one render of the component with parameters p, any numbers:   *)
(* calculateAnglesAndJoints(p), toSVGCoords of the four joints, and what   *)
(* the render's onPointerDown stores.                                       *)
(***************************************************************************)
\* The parameters of the render, as decimal strings n/d: values of the
\* sliders' ranges, lengths below them (0.12 and 0.10, as femurLength
\* updates leave them) and the length 0.
PoseInputs ==
  [thighAngle  |-> {<<0, 1>>, <<60, 1>>, <<90, 1>>},
   shinAngle   |-> {<<0, 1>>, <<45, 1>>, <<90, 1>>},
   torsoLength |-> {<<0, 1>>, <<10, 100>>, <<50, 100>>},
   femurLength |-> {<<25, 100>>, <<48, 100>>},
   shinLength  |-> {<<0, 1>>, <<12, 100>>, <<41, 100>>},
   feetLength  |-> {<<24, 100>>}]

\* The parameters with the values v.
ParametersOf(v) == [k \in DOMAIN v |-> Number(v[k][1], v[k][2])]

\* svgAnkle, svgKnee, svgHip and svgTorsoTop.
SvgOf(joints) == [k \in DOMAIN joints |-> toSVGCoords(joints[k])]

\* The render with parameters p.
RenderOf(p) ==
  [made |-> TRUE, p |-> p, result |-> calculateAnglesAndJoints(p),
   svg |-> SvgOf(calculateAnglesAndJoints(p).joints),
   snapshot |-> SnapshotOf(p)]

\* One render, of a behaviour's single render.
Render ==
  /\ ~pose.made
  /\ \E v \in [DOMAIN PoseInputs -> UNION {PoseInputs[k] : k \in DOMAIN PoseInputs}] :
       /\ \A k \in DOMAIN PoseInputs : v[k] \in PoseInputs[k]
       /\ pose' = RenderOf(ParametersOf(v))
  /\ UNCHANGED <<parameters, femurDragRatio, femurDragTSRatio,
                 femurDragShoulderHeight, dragging, atStart, lastRead, edits,
                 gestures, call, anim, bisect>>

PoseSpec == Init /\ [][Render]_vars

(***************************************************************************)
(* AnimSpec: one animation run, calculateAnimationFrame polled at          *)
(* non-decreasing times with the run's duration, cycles and angles.        *)
(***************************************************************************)
\* duration (ms), cycles, and the squatted and the standing <<thigh, shin>>
\* angles (degrees; <<0, 0>> are the default standing angles).
Durations == {1000, 2000}

CycleCounts == {1, 2}

SquattedAngles == {<<90, 45>>, <<120, 30>>}

StandingAngles == {<<0, 0>>, <<10, 5>>}

\* The steps of currentTime from one poll to the next, and the last poll.
PollSteps == {0, 250, 500, 1000}

MaxTime == 4500

AnimInit ==
  /\ Mounted
  /\ call = NoCall
  /\ bisect = NoBisect
  /\ pose = NoPose
  /\ \E d \in Durations : \E n \in CycleCounts :
       \E sq \in SquattedAngles : \E st \in StandingAngles :
         anim = [NoAnim EXCEPT !.duration = d, !.cycles = n,
                               !.squatted = sq, !.standing = st]

\* The frame of the run a at currentTime t.
FrameAt(a, t) ==
  calculateAnimationFrame(FromInt(t), Zero, FromInt(a.duration),
                          FromInt(a.cycles),
                          FromInt(a.squatted[1]), FromInt(a.squatted[2]),
                          FromInt(a.standing[1]), FromInt(a.standing[2]))

\* One poll, step after the last one (the first at currentTime = step).
Poll ==
  /\ \E step \in PollSteps :
       /\ anim.currentTime + step <= MaxTime
       /\ anim' = [anim EXCEPT !.polled = TRUE,
                               !.currentTime = @ + step,
                               !.prev = anim.frame,
                               !.frame = FrameAt(anim, anim.currentTime + step)]
  /\ UNCHANGED <<parameters, femurDragRatio, femurDragTSRatio,
                 femurDragShoulderHeight, dragging, atStart, lastRead, edits,
                 gestures, call, bisect, pose>>

AnimSpec == AnimInit /\ [][Poll]_vars

(***************************************************************************)
(* SweepSpec: the polls of AnimSpec with target angles in tenths of a      *)
(* degree, the step of the angle sliders.                                   *)
(***************************************************************************)
\* Squatted and standing <<thigh, shin>> targets in tenths of a degree; the
\* last standing pair lies above the squatted ones.
SweepSquatted == {<<901, 453>>, <<333, 56>>}

SweepStanding == {<<3, 11>>, <<7, 0>>, <<1207, 770>>}

SweepInit ==
  /\ Mounted
  /\ call = NoCall
  /\ bisect = NoBisect
  /\ pose = NoPose
  /\ \E d \in Durations : \E n \in CycleCounts :
       \E sq \in SweepSquatted : \E st \in SweepStanding :
         anim = [NoAnim EXCEPT !.duration = d, !.cycles = n,
                               !.squatted = sq, !.standing = st]

\* The angle of v tenths of a degree.
TenthsOf(v) == Number(v, 10)

\* The frame of the run a at currentTime t.
SweepFrameAt(a, t) ==
  calculateAnimationFrame(FromInt(t), Zero, FromInt(a.duration),
                          FromInt(a.cycles),
                          TenthsOf(a.squatted[1]), TenthsOf(a.squatted[2]),
                          TenthsOf(a.standing[1]), TenthsOf(a.standing[2]))

\* One poll, step after the last one.
SweepPoll ==
  /\ \E step \in PollSteps :
       /\ anim.currentTime + step <= MaxTime
       /\ anim' = [anim EXCEPT !.polled = TRUE,
                               !.currentTime = @ + step,
                               !.prev = anim.frame,
                               !.frame = SweepFrameAt(anim,
                                                      anim.currentTime + step)]
  /\ UNCHANGED <<parameters, femurDragRatio, femurDragTSRatio,
                 femurDragShoulderHeight, dragging, atStart, lastRead, edits,
                 gestures, call, bisect, pose>>

SweepSpec == SweepInit /\ [][SweepPoll]_vars

(***************************************************************************)
(* Claims about the component                                              *)
(***************************************************************************)
\* The rounding errors a statement "up to rounding" allows, in units in the
\* last place of the value it names.
Ulps == 4

\* x is y up to rounding.
Close(x, y) ==
  /\ IsFinite(x)
  /\ IsFinite(y)
  /\ ~FLt(Norm(Ulps, y.e), FAbs(FSub(x, y)))

\* shinLength + femurLength + torsoLength
SumOf(p) == FAdd(FAdd(p.shinLength, p.femurLength), p.torsoLength)

\* torsoLength / shinLength
QuotientOf(p) == FDiv(p.torsoLength, p.shinLength)

\* The refs a capture from the parameters p holds.
Captured(p) ==
  <<SnapshotOf(p).ratio, SnapshotOf(p).tsRatio, SnapshotOf(p).shoulderHeight>>

\* C1. After any sequence of slider edits, gesture starts and ends and
\* femurLength edits, the stored torsoLength, femurLength, shinLength and
\* feetLength are all strictly positive.
C1_LengthsPositive ==
  \A k \in {"torsoLength", "femurLength", "shinLength", "feetLength"} :
    FLt(Zero, parameters[k])

\* C2. After each femurLength update inside a gesture, the update has read
\* the ratio, tsRatio and shoulderHeight captured from the parameters at the
\* gesture's start, and shinLength + femurLength + torsoLength is the sum at
\* the gesture's start and torsoLength / shinLength the quotient at the
\* gesture's start, up to rounding.
C2_GestureKeepsStart ==
  (dragging /\ lastRead # NoRead) =>
    /\ lastRead = Captured(atStart)
    /\ Close(SumOf(parameters), SumOf(atStart))
    /\ Close(QuotientOf(parameters), QuotientOf(atStart))

\* A femurLength update inside a gesture whose start had a sum other than H0
\* and a quotient other than T0/S0.
C2_Witness ==
  /\ dragging
  /\ lastRead # NoRead
  /\ parameters.femurLength # atStart.femurLength
  /\ ~Close(SumOf(atStart), initialValues.H0)
  /\ ~Close(QuotientOf(atStart), FDiv(initialValues.T0, initialValues.S0))
  /\ Close(SumOf(parameters), SumOf(atStart))

\* C5. The three refs are all null or all non-null; they are non-null
\* exactly between a pointerdown on the femur slider and the next pointerup.
C5_SnapshotAllOrNone ==
  /\ \/ \A i \in 1..3 : Refs[i] = Null
     \/ \A i \in 1..3 : Refs[i] # Null
  /\ dragging <=> Refs[1] # Null

\* After a gesture with a femurLength update in it has ended: all null.
C5_Witness ==
  /\ gestures > 0
  /\ edits > 0
  /\ ~dragging
  /\ Refs = <<Null, Null, Null>>

\* C6. A femurLength update reads either the three values captured at the
\* pointerdown of the gesture it is in, or, outside any gesture (before the
\* first pointerdown or after a pointerup), three nulls.
C6_ReadsCaptureOrNull ==
  lastRead # NoRead =>
    IF dragging THEN lastRead = Captured(atStart)
    ELSE lastRead = <<Null, Null, Null>>

\* A femurLength update after a gesture has ended, reading three nulls.
C6_Witness ==
  /\ lastRead = <<Null, Null, Null>>
  /\ gestures > 0
  /\ ~dragging

\* C6 as the specification has it: every femurLength update that reads the
\* refs is inside a gesture, after its capture and before its clear.
C6_ReadsOnlyInGesture == lastRead # NoRead => dragging

(***************************************************************************)
(* Claims about calculateFemurLengthUpdate                                 *)
(***************************************************************************)
\* H_fixed and TS_fixed of the call.
CallH == HFixed(initialValues, call.shoulderHeight)

CallTS == TSFixed(initialValues, call.tsRatio)

\* C3. newShin + newFemur + newTorso is H_fixed, the snapshot's
\* shoulderHeight when it is non-null and otherwise H0, up to rounding.
C3_HeightConserved ==
  call.made =>
    Close(FAdd(FAdd(call.result.newShin, call.newFemur), call.result.newTorso),
          CallH)

\* A call with a snapshot shoulderHeight other than H0, and one below
\* newFemur, so that newShin is negative.
C3_Witness ==
  /\ call.made
  /\ call.shoulderHeight # Null
  /\ FLt(call.shoulderHeight, call.newFemur)
  /\ FLt(call.result.newShin, Zero)

\* C4. Where newFemur differs from H_fixed, newTorso / newShin is TS_fixed,
\* the snapshot's tsRatio when it is non-null and otherwise T0/S0, up to
\* rounding; where newFemur is H_fixed, newShin and newTorso are both 0 and
\* newTorso / newShin is NaN.
C4_RatioConservedOffZero ==
  call.made =>
    IF FEq(call.newFemur, CallH)
    THEN /\ call.result.newShin = Zero
         /\ call.result.newTorso = Zero
         /\ IsNaN(FDiv(call.result.newTorso, call.result.newShin))
    ELSE Close(FDiv(call.result.newTorso, call.result.newShin), CallTS)

\* A call with newFemur = H_fixed and a non-null tsRatio.
C4_Witness ==
  /\ call.made
  /\ call.tsRatio # Null
  /\ FEq(call.newFemur, CallH)
  /\ call.result.newShin = Zero

\* C4 as the specification has it: newTorso / newShin is TS_fixed for every
\* newFemur and every snapshot.
C4_RatioConserved ==
  call.made =>
    Close(FDiv(call.result.newTorso, call.result.newShin), CallTS)

\* Parameters that differ from the call's in thighAngle, shinAngle,
\* torsoLength, shinLength or femurLength, one at a time and all at once,
\* and not in feetLength.
OtherParameters ==
  {[parameters EXCEPT !.thighAngle = Number(60, 1)],
   [parameters EXCEPT !.shinAngle = Number(20, 1)],
   [parameters EXCEPT !.torsoLength = Number(30, 100)],
   [parameters EXCEPT !.shinLength = Number(23, 100)],
   [parameters EXCEPT !.femurLength = Number(65, 100)],
   [parameters EXCEPT !.thighAngle = Number(120, 1),
                      !.shinAngle = Number(10, 1),
                      !.torsoLength = Number(75, 100),
                      !.shinLength = Number(63, 100),
                      !.femurLength = Number(25, 100)]}

\* The call of the state made again with the parameters p.
CallAgainWith(p) ==
  calculateFemurLengthUpdate(call.newFemur, p, initialValues, call.ratio,
                             call.tsRatio, call.shoulderHeight)

\* C21. Two calls of calculateFemurLengthUpdate with the same newFemur,
\* feetLength, initialValues and snapshot return the same result, whatever
\* the thighAngle, shinAngle, torsoLength, shinLength and femurLength of
\* their parameters.
C21_OnlyFeetLengthRead ==
  call.made => \A p \in OtherParameters : CallAgainWith(p) = call.result

\* A call with a snapshot whose bisection moved both ends of the bracket,
\* and the same call with another thighAngle.
C21_Witness ==
  /\ call.made
  /\ call.ratio # Null
  /\ IsFinite(call.result.newShinAngle)
  /\ FLt(Zero, call.result.newShinAngle)
  /\ FLt(call.result.newShinAngle, FMul(call.ratio, FromInt(BracketHigh - 1)))
  /\ CallAgainWith([parameters EXCEPT !.thighAngle = Number(60, 1)])
       = call.result

\* ratio0 of calculateInitialValues.
Ratio0 == BalanceRatio(initial, initialValues.psi0, initialValues.phi)

\* C24. For the default parameters ratio0 is strictly inside (-1, 1) and
\* not 0, so theta0 is the arcsine of ratio0 itself and R_shin is a finite
\* positive number; H0 is 1.39 and T0 / S0 is 0.50 / 0.41.  The calls of
\* SolverSpec are made from the parameters the component mounts with, the
\* defaults.
C24_DefaultsInsideClamp ==
  /\ parameters = initial
  /\ FLt(FromInt(-1), Ratio0)
  /\ FLt(Ratio0, Lit1)
  /\ FNe(Ratio0, Zero)
  /\ initialValues.theta0 = MathAsin(Ratio0)
  /\ FNe(initialValues.theta0, MathAsin(FromInt(-1)))
  /\ IsFinite(initialValues.R_shin)
  /\ FLt(Zero, initialValues.R_shin)
  /\ Close(initialValues.H0, Number(139, 100))
  /\ FDiv(initialValues.T0, initialValues.S0)
       = FDiv(Number(50, 100), Number(41, 100))

\* A call without a snapshot, which falls back on R_shin, T0 / S0 and H0
\* of the defaults, from the parameters the component mounts with.
C24_Witness ==
  /\ parameters = initial
  /\ call.made
  /\ call.ratio = Null /\ call.tsRatio = Null /\ call.shoulderHeight = Null
  /\ IsFinite(call.result.newShinAngle)
  /\ FLt(Zero, call.result.newShinAngle)
  /\ CallH = initialValues.H0
  /\ CallTS = FDiv(initialValues.T0, initialValues.S0)

(***************************************************************************)
(* Claims about the bisection of calculateFemurLengthUpdate                *)
(***************************************************************************)
\* f(0) and f(90) have opposite signs.
Bracketed == FLt(FMul(bisect.f0, bisect.f90), Zero)

\* x_deg of the call.
XDeg == DegOf(bisect.s.x)

\* C11. When f(0) and f(90) have opposite signs: after every iteration that
\* did not leave the loop, the bracket [low, high] has the width
\* 90 / 2^iterations and f has opposite signs at its ends, and x_deg is the
\* midpoint of the bracket the iteration started from, of twice that width
\* (90 / 2^29 after the last iteration) and with opposite signs of f at its
\* ends; after an iteration that left the loop, |f(x_deg)| < 1e-6.
C11_BracketKept ==
  (bisect.made /\ Bracketed /\ bisect.s.i > 0) =>
    IF bisect.s.done
    THEN FLt(MathAbs(FOf(XDeg, bisect.c)), Tolerance)
    ELSE /\ bisect.s.hi - bisect.s.lo = 2^(BisectionIterations - bisect.s.i)
         /\ FLt(FMul(bisect.s.flo, bisect.fhi), Zero)
         /\ 2 * bisect.s.x = bisect.from.lo + bisect.from.hi
         /\ bisect.from.hi - bisect.from.lo = 2 * (bisect.s.hi - bisect.s.lo)
         /\ FLt(FMul(bisect.from.flo, bisect.from.fhi), Zero)

\* A call with opposite signs of f at 0 and 90 that has run all its
\* iterations and returned, its bracket having moved at both ends.
C11_Witness ==
  /\ bisect.made
  /\ Bracketed
  /\ bisect.returned
  /\ ~bisect.s.done
  /\ bisect.s.i = BisectionIterations
  /\ bisect.s.lo > 0
  /\ bisect.s.hi < 2^BisectionIterations

\* C12. When f(0) and f(90) do not have opposite signs, the call returns as
\* any other: newShin, newTorso and newShinAngle are finite numbers, the
\* same as calculateFemurLengthUpdate gives, and newShinAngle is R_fixed
\* times x_deg, the last midpoint the loop visited.
C12_ReturnsWithoutBracket ==
  (bisect.made /\ bisect.returned /\ ~Bracketed) =>
    /\ IsFinite(bisect.result.newShin)
    /\ IsFinite(bisect.result.newTorso)
    /\ IsFinite(bisect.result.newShinAngle)
    /\ 2 * bisect.s.x = bisect.from.lo + bisect.from.hi
    /\ bisect.result.newShinAngle = FMul(bisect.c.R_fixed, XDeg)
    /\ bisect.result =
         calculateFemurLengthUpdate(bisect.newFemur,
                                    [parameters EXCEPT
                                       !.feetLength = bisect.feetLength],
                                    initialValues, bisect.ratio, bisect.tsRatio,
                                    bisect.shoulderHeight)

\* A call without opposite signs of f at 0 and 90 that ran all its
\* iterations and returned.
C12_Witness ==
  /\ bisect.made
  /\ bisect.returned
  /\ ~Bracketed
  /\ bisect.s.i = BisectionIterations
  /\ bisect.result.newShinAngle # Null

\* The parameters changed and the step was not a femurLength update.
OtherEdit == parameters' # parameters /\ edits' = edits

\* One key other than femurLength holds a value of its slider and nothing
\* else changed: not the other five parameters, not the three refs.
StoredAsIs ==
  /\ \E key \in OtherKeys : \E v \in SliderValues[key] :
       parameters' = [parameters EXCEPT ![key] = Number(v[1], v[2])]
  /\ UNCHANGED <<femurDragRatio, femurDragTSRatio, femurDragShoulderHeight>>

\* The step stored what calculateFemurLengthUpdate returned for the new
\* femurLength.
RoutedThroughSolver ==
  parameters' =
    SetFemur(parameters'.femurLength,
             calculateFemurLengthUpdate(parameters'.femurLength, parameters,
                                        initialValues, femurDragRatio,
                                        femurDragTSRatio,
                                        femurDragShoulderHeight))

\* C18. An edit of a parameter other than femurLength stores the value
\* as it is under its key and leaves the other five parameters and the
\* three refs alone; a change of more than one parameter comes only from a
\* femurLength edit, which stores calculateFemurLengthUpdate's result.
C18_OtherEditsAsIs ==
  [][/\ OtherEdit => StoredAsIs
     /\ (parameters' # parameters /\ edits' # edits) => RoutedThroughSolver]_vars

\* An edit of thighAngle during a gesture that has made no femurLength
\* update: the refs still hold the capture of the gesture's start.
C18_Witness ==
  /\ dragging
  /\ edits = 0
  /\ parameters.thighAngle # atStart.thighAngle
  /\ parameters = [atStart EXCEPT !.thighAngle = parameters.thighAngle]
  /\ Refs = Captured(atStart)

\* After an iteration: 0 <= low <= x_deg <= high <= 90, x_deg the midpoint
\* of the bracket the iteration began with, and at most 30 iterations run.
MidpointInBracket ==
  /\ bisect.s.i <= BisectionIterations
  /\ 0 <= bisect.s.lo
  /\ bisect.s.lo <= bisect.s.x
  /\ bisect.s.x <= bisect.s.hi
  /\ bisect.s.hi <= 2^BisectionIterations
  /\ 2 * bisect.s.x = bisect.from.lo + bisect.from.hi

\* The iteration moved exactly one end of the bracket to the midpoint.
MovedOneEnd ==
  \/ bisect.s.lo = bisect.s.x /\ bisect.s.hi = bisect.from.hi
       /\ bisect.from.lo # bisect.s.x
  \/ bisect.s.hi = bisect.s.x /\ bisect.s.lo = bisect.from.lo
       /\ bisect.from.hi # bisect.s.x

\* The iteration left the bracket as it was.
MovedNoEnd ==
  bisect.s.lo = bisect.from.lo /\ bisect.s.hi = bisect.from.hi

\* The returned x_deg is strictly between 0 and 90 and newShinAngle is
\* R_fixed * x_deg.
ReturnedInside ==
  bisect.returned =>
    /\ 0 < bisect.s.x
    /\ bisect.s.x < 2^BisectionIterations
    /\ bisect.result.newShinAngle = FMul(bisect.c.R_fixed, XDeg)

\* C22 as stated. At every iteration the midpoint lies in the bracket and
\* exactly one end moved to it; the returned x_deg is strictly inside
\* (0, 90).
C22_OneEndMoves ==
  (bisect.made /\ bisect.s.i > 0) =>
    MidpointInBracket /\ MovedOneEnd /\ ReturnedInside

\* C22, amended. The loop runs at most 30 iterations; after every
\* iteration 0 <= low <= x_deg <= high <= 90 with x_deg the midpoint, and the
\* iteration moved exactly one end to it, except the iteration that leaves
\* through break, which moves none; the returned x_deg is strictly inside
\* (0, 90) and newShinAngle = R_fixed * x_deg.
C22_LoopEnds ==
  (bisect.made /\ bisect.s.i > 0) =>
    /\ MidpointInBracket
    /\ IF bisect.s.done THEN MovedNoEnd ELSE MovedOneEnd
    /\ ReturnedInside

\* A call that returned through break after more than one iteration.
C22_Witness ==
  /\ bisect.made
  /\ bisect.returned
  /\ bisect.s.done
  /\ bisect.s.i > 1
  /\ bisect.s.i < BisectionIterations
  /\ MidpointInBracket /\ MovedNoEnd

\* The step stored the result r of the solver with the new femurLength, a
\* value of the femur slider, and changed nothing else.
FemurEditStores(r) ==
  /\ \E v \in SliderValues.femurLength :
       parameters'.femurLength = Number(v[1], v[2])
  /\ parameters'.torsoLength = r.newTorso
  /\ parameters'.shinLength = r.newShin
  /\ parameters'.shinAngle = r.newShinAngle
  /\ parameters'.thighAngle = parameters.thighAngle
  /\ parameters'.feetLength = parameters.feetLength
  /\ UNCHANGED <<femurDragRatio, femurDragTSRatio, femurDragShoulderHeight>>

\* C23. A femurLength edit stores the edited value under femurLength and
\* the solver's newTorso, newShin and newShinAngle under torsoLength,
\* shinLength and shinAngle, and leaves thighAngle, feetLength and the three
\* refs as they were.
C23_FemurEditFrame ==
  [][edits' # edits =>
       \A r \in {calculateFemurLengthUpdate(parameters'.femurLength,
                    parameters, initialValues, femurDragRatio,
                    femurDragTSRatio, femurDragShoulderHeight)} :
         FemurEditStores(r)]_vars

\* A femurLength edit during a gesture begun at a thighAngle other than the
\* initial one: the lengths changed, and the refs still hold what the edit
\* read.
C23_Witness ==
  /\ dragging
  /\ lastRead # NoRead
  /\ lastRead = Refs
  /\ femurDragRatio # Null
  /\ parameters.thighAngle # initialValues.thighAngle
  /\ parameters.thighAngle = atStart.thighAngle
  /\ parameters.femurLength # atStart.femurLength
  /\ parameters.shinLength # atStart.shinLength
  /\ parameters.torsoLength # parameters.shinLength

(***************************************************************************)
(* Claims about calculateAnglesAndJoints, toSVGCoords and the capture      *)
(***************************************************************************)
\* The balance ratio of the render's parameters.
PoseRatio == BalanceRatio(pose.p, pose.result.psi, pose.result.phi)

\* C13. When the balance ratio lies outside [-1, 1], torsoAngleDeg is
\* exactly 90 (and so is not NaN).
C13_ClampSaturates ==
  (pose.made /\ (FLt(Lit1, PoseRatio) \/ FLt(PoseRatio, FromInt(-1)))) =>
    pose.result.torsoAngleDeg = FromInt(BracketHigh)

\* A render with a finite balance ratio above 1.
C13_Witness ==
  /\ pose.made
  /\ IsFinite(PoseRatio)
  /\ FLt(Lit1, PoseRatio)
  /\ pose.result.torsoAngleDeg = FromInt(BracketHigh)

\* The numbers calculateAnglesAndJoints returned.
PoseNumbers ==
  {pose.result.torsoAngleDeg, pose.result.TS_ratio, pose.result.angleRatio,
   pose.result.shoulderHeight}
    \cup UNION {{pose.result.joints[k].x, pose.result.joints[k].y} :
                  k \in DOMAIN pose.result.joints}

\* C14. Whatever the parameters, a length of 0 included, every number
\* calculateAnglesAndJoints returns is finite: none is NaN, infinite or
\* missing.
C14_AllFinite == pose.made => \A n \in PoseNumbers : IsFinite(n)

\* |x - y| < tolerance.
Within(x, y, tolerance) == FLt(MathAbs(FSub(x, y)), tolerance)

\* What f closed over in the femurLength update that made the current
\* parameters: the stored newShin, newTorso and newFemur, the R_fixed it
\* read, the initial phi and the feetLength.
UpdateClosure ==
  ClosureOfF(parameters.femurLength, parameters.shinLength,
             parameters.torsoLength, RFixed(initialValues, lastRead[1]),
             initialValues.phi, parameters.feetLength)

\* f(0) and f(90) have opposite signs.
BracketedFor(c) == FLt(FMul(FOf(Zero, c), FOf(High, c)), Zero)

\* The forward evaluator on the current parameters agrees with the solve
\* that closed over c: back angle within half a degree of x_deg, angleRatio
\* within 0.05 of R_fixed.
PoseMatchesSolve(c) ==
  /\ Within(calculateAnglesAndJoints(parameters).torsoAngleDeg,
            DegOf(SolveBackAngle(c).x), Number(1, 2))
  /\ Within(calculateAnglesAndJoints(parameters).angleRatio, c.R_fixed,
            Number(5, 100))

\* C15. Right after a femurLength update whose bisection had a bracketed
\* root, calculateAnglesAndJoints on the updated parameters reports the
\* solved back angle x_deg and the angleRatio R_fixed, whatever thighAngle
\* is.
C15_PoseMatchesSolve ==
  (lastRead # NoRead) =>
    \A c \in {UpdateClosure} : BracketedFor(c) => PoseMatchesSolve(c)

\* The same with thighAngle at its initial value.
C15_MatchesAtInitialThigh ==
  (lastRead # NoRead /\ parameters.thighAngle = initialValues.thighAngle) =>
    \A c \in {UpdateClosure} : BracketedFor(c) => PoseMatchesSolve(c)

\* C16. What onPointerDown stores comes from the current parameters:
\* ratio is shinAngle over the current back angle in degrees when that angle
\* is not 0 and R_shin when it is 0 (so never a quotient by 0), tsRatio is
\* torsoLength / shinLength, shoulderHeight the sum of the three lengths.
C16_SnapshotOfCurrent ==
  pose.made =>
    /\ pose.snapshot.ratio =
         IF pose.result.torsoAngleDeg = Zero
         THEN initialValues.R_shin
         ELSE FDiv(pose.p.shinAngle, pose.result.torsoAngleDeg)
    /\ pose.snapshot.tsRatio = QuotientOf(pose.p)
    /\ pose.snapshot.shoulderHeight = SumOf(pose.p)

\* A pointerdown at a back angle of exactly 0, with parameters other than
\* the initial ones.
C16_Witness ==
  /\ pose.made
  /\ pose.result.torsoAngleDeg = Zero
  /\ pose.p.shinAngle # initialValues.shinAngle
  /\ pose.snapshot.ratio = initialValues.R_shin
  /\ pose.snapshot.tsRatio # FDiv(initialValues.T0, initialValues.S0)

\* C17. angleRatio is 0 when torsoAngleDeg is 0 and shinAngle /
\* torsoAngleDeg otherwise, so never a quotient by a back angle of 0.
C17_AngleRatioGuarded ==
  pose.made =>
    pose.result.angleRatio =
      IF pose.result.torsoAngleDeg = Zero
      THEN Zero
      ELSE FDiv(pose.p.shinAngle, pose.result.torsoAngleDeg)

\* A render at a back angle of exactly 0 with a shinAngle other than 0.
C17_Witness ==
  /\ pose.made
  /\ pose.result.torsoAngleDeg = Zero
  /\ pose.p.shinAngle # Zero
  /\ pose.result.angleRatio = Zero

\* The joints of the render whose coordinates are numbers.
FiniteJoints ==
  {k \in DOMAIN pose.result.joints :
     IsFinite(pose.result.joints[k].x) /\ IsFinite(pose.result.joints[k].y)}

\* The joints of the render with 0 <= y <= 1.5, the heights the drawing
\* shows.
DrawnJoints ==
  {k \in FiniteJoints :
     /\ ~FLt(pose.result.joints[k].y, Zero)
     /\ ~FLt(Number(15, 10), pose.result.joints[k].y)}

\* toSVGCoords(p) keeps x and has y = 1.5 - p.y.
FlipsY(p) ==
  /\ toSVGCoords(p).x = p.x
  /\ toSVGCoords(p).y = FSub(Number(15, 10), p.y)

\* |x - y| is at most one unit in the last place of 1.5.
WithinUlpOfHeight(x, y) ==
  ~FLt(Norm(1, Number(15, 10).e), FAbs(FSub(x, y)))

\* C19 as stated. toSVGCoords keeps x, maps y to 1.5 - y, and applied twice
\* gives the point back.
C19_Involution ==
  pose.made =>
    \A k \in FiniteJoints :
      /\ FlipsY(pose.result.joints[k])
      /\ toSVGCoords(pose.svg[k]) = pose.result.joints[k]

\* C19, amended. toSVGCoords keeps x and maps y to 1.5 - y; applied twice
\* to a point with 0 <= y <= 1.5 it gives x back and y up to the rounding
\* of the two subtractions, at most one unit in the last place of 1.5.
C19_InvolutionUpToRounding ==
  pose.made =>
    /\ \A k \in FiniteJoints : FlipsY(pose.result.joints[k])
    /\ \A k \in DrawnJoints :
         /\ toSVGCoords(pose.svg[k]).x = pose.result.joints[k].x
         /\ WithinUlpOfHeight(toSVGCoords(pose.svg[k]).y,
                              pose.result.joints[k].y)

\* A render with a joint that two applications move, and a joint above the
\* ankle that they give back.
C19_Witness ==
  /\ pose.made
  /\ \E k \in DrawnJoints : toSVGCoords(pose.svg[k]) # pose.result.joints[k]
  /\ \E k \in DrawnJoints :
       /\ pose.result.joints[k].y # Zero
       /\ toSVGCoords(pose.svg[k]) = pose.result.joints[k]

\* The distance from a to b is the length: the length is not negative and
\* the squared distance is its square to within 0.001.
SegmentIs(a, b, length) ==
  /\ ~FLt(length, Zero)
  /\ Within(FAdd(FMul(FSub(b.x, a.x), FSub(b.x, a.x)),
                 FMul(FSub(b.y, a.y), FSub(b.y, a.y))),
            FMul(length, length), Number(1, 1000))

\* The ankle is at (0, 0) and the three segments of the joints have the
\* lengths of p.
ChainOf(joints, p) ==
  /\ joints.ankle = [x |-> Zero, y |-> Zero]
  /\ SegmentIs(joints.ankle, joints.knee, p.shinLength)
  /\ SegmentIs(joints.knee, joints.hip, p.femurLength)
  /\ SegmentIs(joints.hip, joints.torsoTop, p.torsoLength)

\* C20. For the parameters the component holds, calculateAnglesAndJoints
\* puts the ankle at (0, 0) and knee, hip and torsoTop at distances
\* shinLength, femurLength and torsoLength from one another.
C20_SegmentLengths ==
  ChainOf(calculateAnglesAndJoints(parameters).joints, parameters)

\* The same for parameters with no negative length.
C20_LengthsOfPositive ==
  (/\ ~FLt(parameters.shinLength, Zero)
   /\ ~FLt(parameters.torsoLength, Zero)) =>
    ChainOf(calculateAnglesAndJoints(parameters).joints, parameters)

\* The same for the parameters of a render whose back angle is a number.
C20_LengthsOfRender ==
  (pose.made /\ IsFinite(pose.result.torsoAngleDeg)) =>
    ChainOf(pose.result.joints, pose.p)

(***************************************************************************)
(* Claims about calculateAnimationFrame                                    *)
(***************************************************************************)
\* The frame's two angles, and a run's angles as numbers.
FrameAngles(f) == <<f.currentThighAngle, f.currentShinAngle>>

AnglesOf(pair) == <<FromInt(pair[1]), FromInt(pair[2])>>

\* C7. isComplete is true exactly when currentTime >= duration * cycles, and
\* the angles then are the squatted targets.
C7_CompleteAtTotalDuration ==
  anim.polled =>
    /\ anim.frame.isComplete <=>
         anim.currentTime >= anim.duration * anim.cycles
    /\ anim.frame.isComplete =>
         FrameAngles(anim.frame) = AnglesOf(anim.squatted)

\* A poll at currentTime = duration * cycles exactly, with standing angles
\* that are not the defaults.
C7_Witness ==
  /\ anim.polled
  /\ anim.currentTime = anim.duration * anim.cycles
  /\ anim.standing # <<0, 0>>
  /\ anim.frame.isComplete

\* C8. At currentTime = 0 the frame has isComplete = false and the squatted
\* angles.
C8_StartsSquatted ==
  (anim.polled /\ anim.currentTime = 0) =>
    /\ ~anim.frame.isComplete
    /\ FrameAngles(anim.frame) = AnglesOf(anim.squatted)

\* A poll at currentTime = 0.
C8_Witness ==
  /\ anim.polled
  /\ anim.currentTime = 0
  /\ FrameAngles(anim.frame) # AnglesOf(anim.standing)

\* C8 as the specification has it: at currentTime = 0 the frame has
\* isComplete = false and the standing angles.
C8_StartsStanding ==
  (anim.polled /\ anim.currentTime = 0) =>
    /\ ~anim.frame.isComplete
    /\ FrameAngles(anim.frame) = AnglesOf(anim.standing)

C10_CompleteStays ==
  (anim.polled /\ anim.prev.isComplete) => anim.frame = anim.prev

\* A poll after the completing poll, at a later time.
C10_Witness ==
  /\ anim.polled
  /\ anim.prev.isComplete
  /\ anim.frame.isComplete
  /\ anim.currentTime > anim.duration * anim.cycles


\* The frame's angles and their targets, thigh then shin, as
\* <<angle, squatted, standing>>.
SweepAngles ==
  {<<FrameAngles(anim.frame)[i], TenthsOf(anim.squatted[i]),
     TenthsOf(anim.standing[i])>> : i \in 1..2}

\* a <= x <= b or b <= x <= a.
Between(x, a, b) ==
  \/ ~FLt(x, a) /\ ~FLt(b, x)
  \/ ~FLt(x, b) /\ ~FLt(a, x)

\* Ulps units in the last place of the larger of a and b.
RoundingOf(a, b) == Norm(Ulps, IF a.e > b.e THEN a.e ELSE b.e)

\* x is between a and b, or outside by no more than the rounding.
BetweenUpToRounding(x, a, b) ==
  \/ Between(x, a, b)
  \/ ~FLt(RoundingOf(a, b), FAbs(FSub(x, a)))
  \/ ~FLt(RoundingOf(a, b), FAbs(FSub(x, b)))

\* A running frame one cycle or more into the run is the frame of one
\* duration earlier.
PeriodicWhileRunning ==
  (~anim.frame.isComplete /\ anim.currentTime >= anim.duration) =>
    anim.frame = SweepFrameAt(anim, anim.currentTime - anim.duration)

\* C25 as stated. Each angle of a frame lies between its standing and its
\* squatted target, and running frames repeat with period duration.
C25_BetweenTargets ==
  anim.polled =>
    /\ \A a \in SweepAngles : Between(a[1], a[2], a[3])
    /\ PeriodicWhileRunning

\* C25, amended. Each angle of a frame lies between its standing and its
\* squatted target up to the rounding of the interpolation, and running
\* frames repeat with period duration.
C25_BetweenTargetsUpToRounding ==
  anim.polled =>
    /\ \A a \in SweepAngles : BetweenUpToRounding(a[1], a[2], a[3])
    /\ PeriodicWhileRunning

\* A running frame at the middle of the second cycle whose thigh angle the
\* rounding has put past the standing target.
C25_Witness ==
  /\ anim.polled
  /\ ~anim.frame.isComplete
  /\ anim.currentTime >= anim.duration
  /\ 2 * (anim.currentTime % anim.duration) = anim.duration
  /\ anim.frame = SweepFrameAt(anim, anim.currentTime - anim.duration)
  /\ \E a \in SweepAngles :
       /\ ~Between(a[1], a[2], a[3])
       /\ BetweenUpToRounding(a[1], a[2], a[3])

=============================================================================
